---- MODULE Spec2Model ----
(***************************************************************************)
(* CareerGenie: the multi-provider generation wrapper (config/ai.js).      *)
(*                                                                         *)
(* Strings the program builds are modelled as sequences of atoms (TLA+     *)
(* strings), so that template literals and join() are concatenations and a *)
(* message can be split at its "\n" atoms again.  Temperatures are in      *)
(* tenths (7 stands for 0.7).                                              *)
(***************************************************************************)
EXTENDS Integers, Sequences, FiniteSets, TLC

(***************************************************************************)
(* Bounds of the model.                                                    *)
(***************************************************************************)
MaxChain == 2
MaxCalls == 2
MaxRequests == 2
MaxUsers == 3

Calls == 1..MaxCalls
Requests == 1..MaxRequests
FirstCall == CHOOSE c \in Calls : \A d \in Calls : c <= d
FirstRequest == CHOOSE r \in Requests : \A q \in Requests : r <= q

(***************************************************************************)
(* AI_PROVIDERS and MODELS.                                                *)
(***************************************************************************)
GEMINI == "gemini"
GROQ == "groq"
HUGGINGFACE == "huggingface"
OLLAMA == "ollama"
TOGETHER == "together"

AI_PROVIDERS == {GEMINI, GROQ, HUGGINGFACE, OLLAMA, TOGETHER}

MODELS ==
    [p \in AI_PROVIDERS |->
        CASE p = GEMINI ->
                [default |-> "gemini-1.5-flash", pro |-> "gemini-1.5-pro",
                 flash |-> "gemini-1.5-flash", exp |-> "gemini-2.0-flash-exp"]
          [] p = GROQ ->
                [default |-> "llama-3.3-70b-versatile", fast |-> "llama-3.1-8b-instant",
                 alternative |-> "mixtral-8x7b-32768", specdec |-> "llama-3.3-70b-specdec"]
          [] p = HUGGINGFACE ->
                [default |-> "mistralai/Mistral-7B-Instruct-v0.2",
                 alternative |-> "meta-llama/Llama-2-7b-chat-hf"]
          [] p = OLLAMA ->
                [default |-> "llama3.2", fast |-> "phi3", alternative |-> "mistral"]
          [] p = TOGETHER ->
                [default |-> "meta-llama/Meta-Llama-3.1-70B-Instruct-Turbo",
                 fast |-> "meta-llama/Meta-Llama-3.1-8B-Instruct-Turbo"]]

(***************************************************************************)
(* JavaScript values the code relies on.                                   *)
(***************************************************************************)
\* The value of a missing property or argument.
Undefined == "<undefined>"

\* What MODELS[provider][model] yields for a name that the object literal does
\* not define itself but inherits from Object.prototype (a function or object).
NativeMember == "<Object.prototype member>"

\* Names every object literal inherits.
ObjectPrototypeKeys == {"constructor", "toString", "valueOf", "hasOwnProperty", "__proto__"}

\* obj[key] on an object literal: own property, else inherited, else undefined.
GetProperty(obj, key) ==
    IF key \in DOMAIN obj THEN obj[key]
    ELSE IF key \in ObjectPrototypeKeys THEN NativeMember
    ELSE Undefined

\* a || b on a string-or-undefined value.
Truthy(v) == v # Undefined /\ v # ""

\* The aliases a caller may pass (Undefined: the argument is omitted).
Aliases ==
    {Undefined, "default", "pro", "flash", "exp", "fast", "alternative", "specdec",
     "turbo", "", "constructor", "toString"}

(***************************************************************************)
(* AIProvider constructor: this.model = MODELS[provider][model] ||         *)
(* MODELS[provider].default, with model = 'default' when omitted.          *)
(***************************************************************************)
ResolveModel(provider, model) ==
    LET alias == IF model = Undefined THEN "default" ELSE model
        found == GetProperty(MODELS[provider], alias)
    IN  IF Truthy(found) THEN found ELSE MODELS[provider]["default"]

NewAIProvider(provider, model) ==
    [provider |-> provider, model |-> ResolveModel(provider, model)]

(***************************************************************************)
(* process.env and the module-level clients.                               *)
(***************************************************************************)
GEMINI_API_KEY == "GEMINI_API_KEY"
GROQ_API_KEY == "GROQ_API_KEY"
HUGGINGFACE_API_KEY == "HUGGINGFACE_API_KEY"
TOGETHER_API_KEY == "TOGETHER_API_KEY"

EnvKeys == {GEMINI_API_KEY, GROQ_API_KEY, HUGGINGFACE_API_KEY, TOGETHER_API_KEY}

(***************************************************************************)
(* Options bags: a function from the fields present to their values.       *)
(***************************************************************************)
Temperatures == {0, 3}
TokenCaps == {0, 256}

OptionBags ==
    {[k \in {} |-> 0]}
    \cup {[temperature |-> t] : t \in Temperatures}
    \cup {[maxTokens |-> m] : m \in TokenCaps}
    \cup {[temperature |-> t, maxTokens |-> m] : t \in Temperatures, m \in TokenCaps}

\* options.field || dflt, for a numeric field.
OrDefault(options, field, dflt) ==
    IF field \in DOMAIN options /\ options[field] # 0 THEN options[field] ELSE dflt

DefaultTemperature == 7
DefaultMaxTokens == 1024
HuggingFaceMaxTokens == 500

(***************************************************************************)
(* State.                                                                  *)
(***************************************************************************)
VARIABLES
    env,            \* process.env: the credential keys that are set
    geminiClient,   \* module-level geminiClient: TRUE once created, FALSE while null
    groqClient,     \* module-level groqClient
    constructed,    \* a SmartAIProvider instance exists
    ctorChain,      \* the preferredProviders its constructor was given
    providers,      \* its this.providers
    pc,             \* per generate call: "idle", "iter", "await", "returned", "thrown"
    idx,            \* per call: position of the for..of iterator in this.providers
    errors,         \* per call: the local errors array
    prompt,         \* per call: the prompt argument
    options,        \* per call: the options argument
    inflight,       \* per call: the provider requests sent and not yet answered
    result,         \* per call: the value generate returned
    message,        \* per call: the message of the Error generate threw
    attempts,       \* per call: log of the provider.generate calls made (position, identity)
    outcomes,       \* per call: log of how each of those attempts ended
    overlap,        \* per call: another generate call was running during this one
    finished,       \* how the generate calls already finished on the instance ended
    ai,             \* an AIProvider made by createAI, or NoAI
    aiAlias,        \* the model argument createAI was given
    aiPc,           \* its generate call: "idle", "await", "resolved", "rejected"
    aiOptions,      \* the options argument of that call
    aiInflight,     \* the request that call has sent and not yet got answered
    aiValue,        \* the result that call resolved with
    aiError,        \* the message of the Error that call rejected with
    firstUse,       \* per provider: "unused", or whether its key was set at its first use
    created,        \* per cached client: how often its constructor has been run
    keySeen,        \* per cached client: an AIProvider was constructed while its key was set
    route,          \* the route handler that is serving a request, or NoRoute
    response,       \* what that handler has answered, or NoResponse
    users,          \* the documents of the users collection, in creation order
    store,          \* the session store's entry for the browser's session id
    requests,       \* per request to the auth and profile routers: its progress
    loggedOut,      \* a logout has succeeded and no login or register has since
    history,        \* the history array of the chat session
    sends,          \* per send call on the chat session: its progress
    messages,       \* the children of the browser's chatMessages element, in order
    fetches         \* per sendMessage call in the browser: its progress

gatewayVars == <<constructed, ctorChain, providers>>
callVars ==
    <<pc, idx, errors, prompt, options, inflight, result, message, attempts, outcomes,
      overlap, finished>>
aiVars == <<ai, aiAlias, aiPc, aiOptions, aiInflight, aiValue, aiError>>
clientVars == <<geminiClient, groqClient>>
ghostVars == <<firstUse, created, keySeen>>
handlerVars == <<route, response>>
authVars == <<users, store, requests, loggedOut>>
appVars == <<handlerVars, authVars>>
chatVars == <<history, sends, messages, fetches>>
vars == <<env, clientVars, gatewayVars, callVars, aiVars, ghostVars, appVars, chatVars>>

EmptyBag == [k \in {} |-> 0]

\* The prompt of call c.
PromptOf(c) == "prompt " \o ToString(c)

NoResult == [text |-> <<>>, provider |-> Undefined, model |-> Undefined]
NoAI == [provider |-> Undefined, model |-> Undefined]
NoRoute == "none"
NoResponse == [status |-> 0]
NoUser == [k \in {} |-> ""]
NoSession == [userId |-> Undefined, user |-> NoUser]
IdleRequest == [kind |-> "none", stage |-> "idle"]
IdleSend == [stage |-> "idle"]

(***************************************************************************)
(* initializeClients(): a client is created when its key is set and no     *)
(* client exists yet.                                                      *)
(***************************************************************************)
InitializedGeminiNever(e, client) == client

InitializedGemini(e, client) == client \/ GEMINI_API_KEY \in e
InitializedGroq(e, client) == client \/ GROQ_API_KEY \in e

\* Whether one run of initializeClients executes `new` for the client of a key.
CreatesUnguarded(key, e, client) == key \in e

Creates(key, e, client) == key \in e /\ ~client

\* How many clients n runs of initializeClients in a row create for a key.
RECURSIVE Creations(_, _, _, _)
Creations(key, e, client, n) ==
    IF n = 0 THEN 0
    ELSE (IF Creates(key, e, client) THEN 1 ELSE 0)
            + Creations(key, e, client \/ Creates(key, e, client), n - 1)

\* The bookkeeping of n AIProvider constructions in a row.
Constructions(n) ==
    /\ created' = [created EXCEPT
                      ![GEMINI] = @ + Creations(GEMINI_API_KEY, env, geminiClient, n),
                      ![GROQ] = @ + Creations(GROQ_API_KEY, env, groqClient, n)]
    /\ keySeen' = [keySeen EXCEPT
                      ![GEMINI] = @ \/ (n > 0 /\ GEMINI_API_KEY \in env),
                      ![GROQ] = @ \/ (n > 0 /\ GROQ_API_KEY \in env)]

\* Whether the credential of a provider is set in process.env right now.
CredentialPresent(provider) ==
    CASE provider = GEMINI -> GEMINI_API_KEY \in env
      [] provider = GROQ -> GROQ_API_KEY \in env
      [] provider = HUGGINGFACE -> HUGGINGFACE_API_KEY \in env
      [] provider = TOGETHER -> TOGETHER_API_KEY \in env
      [] provider = OLLAMA -> TRUE

\* The bookkeeping of a generate call on an AIProvider of that provider.
Used(provider) ==
    firstUse' = [firstUse EXCEPT
                    ![provider] = IF @ # "unused" THEN @
                                  ELSE IF CredentialPresent(provider) THEN "present"
                                  ELSE "absent"]

(***************************************************************************)
(* The provider adapters.                                                  *)
(***************************************************************************)
\* The credential check each adapter makes before its try block.
Configured(provider) ==
    CASE provider = GEMINI -> geminiClient
      [] provider = GROQ -> groqClient
      [] provider = HUGGINGFACE -> HUGGINGFACE_API_KEY \in env
      [] provider = TOGETHER -> TOGETHER_API_KEY \in env
      [] provider = OLLAMA -> TRUE

NotConfiguredMessage(provider) ==
    CASE provider = GEMINI -> <<"GEMINI_API_KEY not set">>
      [] provider = GROQ -> <<"GROQ_API_KEY not set">>
      [] provider = HUGGINGFACE -> <<"HUGGINGFACE_API_KEY not set">>
      [] provider = TOGETHER -> <<"TOGETHER_API_KEY not set">>
      [] provider = OLLAMA -> <<>>

\* What the adapter sends to its remote service.
AdapterRequest(p, text, opts) ==
    CASE p.provider = GEMINI ->
            [to |-> GEMINI, model |-> p.model, prompt |-> text,
             temperature |-> OrDefault(opts, "temperature", DefaultTemperature),
             maxOutputTokens |-> OrDefault(opts, "maxTokens", DefaultMaxTokens)]
      [] p.provider = GROQ ->
            [to |-> GROQ, model |-> p.model, prompt |-> text,
             temperature |-> OrDefault(opts, "temperature", DefaultTemperature),
             max_tokens |-> OrDefault(opts, "maxTokens", DefaultMaxTokens)]
      [] p.provider = HUGGINGFACE ->
            [to |-> HUGGINGFACE, model |-> p.model, prompt |-> text,
             max_new_tokens |-> OrDefault(opts, "maxTokens", HuggingFaceMaxTokens),
             temperature |-> OrDefault(opts, "temperature", DefaultTemperature)]
      [] p.provider = OLLAMA ->
            [to |-> OLLAMA, model |-> p.model, prompt |-> text,
             temperature |-> OrDefault(opts, "temperature", DefaultTemperature)]
      [] p.provider = TOGETHER ->
            [to |-> TOGETHER, model |-> p.model, prompt |-> text,
             temperature |-> OrDefault(opts, "temperature", DefaultTemperature),
             max_tokens |-> OrDefault(opts, "maxTokens", DefaultMaxTokens)]

\* How a remote service may answer a request.
\*   "ok":        a success status and a payload that holds a completion
\*   "status":    a non-success status (HTTP 500)
\*   "malformed": a success status whose body is not JSON
Outcomes == {"ok", "status", "malformed"}

\* Answers with a success status and a JSON body that holds no completion.
\*   "empty":  the array of choices, candidates or generations is empty (for
\*             Ollama, whose body has no array: an object without fields)
\*   "notext": the first element is there, its text field is not
PayloadOutcomes == {"empty", "notext"}

\* The completion a remote service produces for a prompt.
Completion(text) == <<"Answer to ", text>>

\* The text field of the payload: HuggingFace returns prompt + completion.
PayloadText(provider, text) ==
    IF provider = HUGGINGFACE THEN <<text, " ">> \o Completion(text) ELSE Completion(text)

\* String.prototype.replace(prompt, ''): the first occurrence is removed.
RECURSIVE ReplaceFirst(_, _)
ReplaceFirst(s, atom) ==
    IF s = <<>> THEN <<>>
    ELSE IF Head(s) = atom THEN Tail(s)
    ELSE <<Head(s)>> \o ReplaceFirst(Tail(s), atom)

\* String.prototype.trim().
RECURSIVE TrimLeft(_)
TrimLeft(s) == IF s # <<>> /\ Head(s) = " " THEN TrimLeft(Tail(s)) ELSE s

RECURSIVE TrimRight(_)
TrimRight(s) ==
    IF s # <<>> /\ s[Len(s)] = " " THEN TrimRight(SubSeq(s, 1, Len(s) - 1)) ELSE s

Trim(s) == TrimRight(TrimLeft(s))

\* The text each adapter extracts from an "ok" payload.
AdapterText(provider, text) ==
    IF provider = HUGGINGFACE
    THEN Trim(ReplaceFirst(PayloadText(provider, text), text))
    ELSE PayloadText(provider, text)

\* The Generation Result an adapter returns.
AdapterResultFirstProvider(p, text) ==
    [text |-> AdapterText(p.provider, text), provider |-> GEMINI, model |-> p.model]

AdapterResult(p, text) ==
    [text |-> AdapterText(p.provider, text),
     provider |->
        CASE p.provider = GEMINI -> GEMINI
          [] p.provider = GROQ -> GROQ
          [] p.provider = HUGGINGFACE -> HUGGINGFACE
          [] p.provider = OLLAMA -> OLLAMA
          [] p.provider = TOGETHER -> TOGETHER,
     model |-> p.model]

\* The message of the engine's SyntaxError for a body that is not JSON, and of
\* the errors the Gemini and Groq SDKs reject with.
JsonSyntaxError == "Unexpected token < in JSON at position 0"
SdkStatusError == "500 Internal Server Error"
SdkParseError == "Could not parse JSON response"

\* The engine's TypeError for a property read on undefined.
TypeErrorReading(property) ==
    "Cannot read properties of undefined (reading '" \o property \o "')"

\* The error the Gemini SDK's response.text() raises when it raises one.
SdkResponseError == "Text not available"

\* Whether the expression after `text:` throws on a body without completion.
\* result.response.text() is the SDK's own code: it may throw or give ''.
ExtractionThrows(provider, outcome) ==
    CASE provider = GEMINI -> BOOLEAN
      [] provider \in {GROQ, TOGETHER} -> {outcome = "empty"}
      [] provider = HUGGINGFACE -> {TRUE}
      [] provider = OLLAMA -> {FALSE}

\* The message of the error that expression throws.
PayloadError(provider, outcome) ==
    CASE provider = GEMINI -> <<SdkResponseError>>
      [] provider \in {GROQ, TOGETHER} -> <<TypeErrorReading("message")>>
      [] provider = HUGGINGFACE ->
            IF outcome = "empty"
            THEN <<TypeErrorReading("generated_text")>>
            ELSE <<TypeErrorReading("replace")>>
      [] provider = OLLAMA -> <<>>

\* The object the adapter returns when that expression does not throw: its
\* text is '' for Gemini and undefined (no field) for the others.
PayloadResult(p, outcome) ==
    IF p.provider = GEMINI
    THEN [text |-> <<>>, provider |-> GEMINI, model |-> p.model]
    ELSE [provider |-> p.provider, model |-> p.model]

\* The message of the error raised inside the adapter's try block.
InnerError(provider, outcome) ==
    CASE outcome \in PayloadOutcomes -> PayloadError(provider, outcome)
      [] provider \in {GEMINI, GROQ} ->
            IF outcome = "status" THEN <<SdkStatusError>> ELSE <<SdkParseError>>
      [] provider = HUGGINGFACE ->
            IF outcome = "status"
            THEN <<"HTTP ", "500", ": ", "Internal Server Error">>
            ELSE <<JsonSyntaxError>>
      [] provider = OLLAMA ->
            IF outcome = "status"
            THEN <<"Ollama not running or model not found">>
            ELSE <<JsonSyntaxError>>
      [] provider = TOGETHER ->
            IF outcome = "status" THEN <<"HTTP ", "500">> ELSE <<JsonSyntaxError>>

\* The message of the Error the adapter's catch block throws instead.
AdapterError(provider, outcome) ==
    CASE provider = GEMINI -> <<"Gemini error: ">> \o InnerError(provider, outcome)
      [] provider = GROQ -> <<"Groq error: ">> \o InnerError(provider, outcome)
      [] provider = HUGGINGFACE -> <<"HuggingFace error: ">> \o InnerError(provider, outcome)
      [] provider = OLLAMA ->
            <<"Ollama error: ">> \o InnerError(provider, outcome)
                \o <<". Make sure Ollama is running.">>
      [] provider = TOGETHER -> <<"Together AI error: ">> \o InnerError(provider, outcome)

\* The ways the promise of an adapter call settles for an answer.
Settlements(p, text, outcome) ==
    IF outcome = "ok"
    THEN {[resolved |-> TRUE, value |-> AdapterResult(p, text)]}
    ELSE IF outcome \in PayloadOutcomes
    THEN {IF throws
          THEN [resolved |-> FALSE, reason |-> AdapterError(p.provider, outcome)]
          ELSE [resolved |-> TRUE, value |-> PayloadResult(p, outcome)] :
                throws \in ExtractionThrows(p.provider, outcome)}
    ELSE {[resolved |-> FALSE, reason |-> AdapterError(p.provider, outcome)]}

(***************************************************************************)
(* SmartAIProvider.                                                        *)
(***************************************************************************)
\* The chains a caller may construct a gateway with.
Chains == UNION {[1..n -> AI_PROVIDERS] : n \in 0..MaxChain}

\* The default value of the constructor's preferredProviders.
DefaultChain == <<GEMINI, GROQ>>

\* preferredProviders.map(p => new AIProvider(p))
MapProviders(chain) == [i \in 1..Len(chain) |-> NewAIProvider(chain[i], Undefined)]

\* `${provider.provider}: ${error.message}`
ErrorEntryBare(provider, msg) == msg

ErrorEntry(provider, msg) == <<provider, ": ">> \o msg

\* Array.prototype.join(sep) on an array of strings.
RECURSIVE Join(_, _)
Join(strings, sep) ==
    IF strings = <<>> THEN <<>>
    ELSE IF Len(strings) = 1 THEN Head(strings)
    ELSE Head(strings) \o <<sep>> \o Join(Tail(strings), sep)

\* `All providers failed:\n${errors.join('\n')}`
AggregateMessageSpaced(errs) == <<"All providers failed:", "\n">> \o Join(errs, " ")

AggregateMessage(errs) == <<"All providers failed:", "\n">> \o Join(errs, "\n")

\* new SmartAIProvider(chain): every AIProvider constructor runs
\* initializeClients().
CreateSmartAI(chain) ==
    /\ ~constructed
    /\ constructed' = TRUE
    /\ ctorChain' = chain
    /\ providers' = MapProviders(chain)
    /\ geminiClient' = IF chain = <<>> THEN geminiClient
                       ELSE InitializedGemini(env, geminiClient)
    /\ groqClient' = IF chain = <<>> THEN groqClient
                     ELSE InitializedGroq(env, groqClient)
    /\ Constructions(Len(chain))
    /\ UNCHANGED <<env, chatVars, callVars, aiVars, firstUse, appVars>>

\* The generate calls that are running.
Running == {c \in Calls : pc[c] \in {"iter", "await"}}

\* generate(prompt, options) is called: const errors = [] and the loop starts.
Generate(c, text, opts) ==
    /\ constructed
    /\ pc[c] \in {"idle", "returned", "thrown"}
    /\ pc' = [pc EXCEPT ![c] = "iter"]
    /\ idx' = [idx EXCEPT ![c] = 1]
    /\ errors' = [errors EXCEPT ![c] = <<>>]
    /\ prompt' = [prompt EXCEPT ![c] = text]
    /\ options' = [options EXCEPT ![c] = opts]
    /\ result' = [result EXCEPT ![c] = NoResult]
    /\ message' = [message EXCEPT ![c] = <<>>]
    /\ attempts' = [attempts EXCEPT ![c] = <<>>]
    /\ outcomes' = [outcomes EXCEPT ![c] = <<>>]
    /\ overlap' = [d \in Calls |->
                      IF d = c THEN Running # {} ELSE overlap[d] \/ d \in Running]
    /\ UNCHANGED <<env, chatVars, clientVars, gatewayVars, inflight, finished, aiVars, ghostVars, appVars>>

\* catch (error) { errors.push(...); continue; }
CatchRetry(c, entry) ==
    /\ errors' = [errors EXCEPT ![c] = Append(@, entry)]
    /\ pc' = [pc EXCEPT ![c] = "iter"]
    /\ UNCHANGED <<idx, providers>>

CatchDemote(c, entry) ==
    /\ errors' = [errors EXCEPT ![c] = Append(@, entry)]
    /\ idx' = [idx EXCEPT ![c] = @ + 1]
    /\ pc' = [pc EXCEPT ![c] = "iter"]
    /\ providers' = IF providers = <<>> THEN providers
                    ELSE Tail(providers) \o <<Head(providers)>>

CatchShared(c, entry) ==
    /\ errors' = [d \in Calls |-> Append(errors[d], entry)]
    /\ idx' = [idx EXCEPT ![c] = @ + 1]
    /\ pc' = [pc EXCEPT ![c] = "iter"]
    /\ UNCHANGED providers

Catch(c, entry) ==
    /\ errors' = [errors EXCEPT ![c] = Append(@, entry)]
    /\ idx' = [idx EXCEPT ![c] = @ + 1]
    /\ pc' = [pc EXCEPT ![c] = "iter"]
    /\ UNCHANGED providers

\* The requests one turn of the loop sends: the request to the provider at the
\* iterator's position.
SendAhead(c) ==
    {[index |-> i, request |-> AdapterRequest(providers[i], prompt[c], options[c])] :
        i \in {j \in idx[c]..Len(providers) : Configured(providers[j].provider)}}

Send(c) ==
    {[index |-> idx[c],
      request |-> AdapterRequest(providers[idx[c]], prompt[c], options[c])]}

\* The loop turn of a gateway that lets a missing credential end the call.
AttemptAbort(c) ==
    /\ pc[c] = "iter"
    /\ idx[c] <= Len(providers)
    /\ LET p == providers[idx[c]]
       IN  /\ attempts' = [attempts EXCEPT
                              ![c] = Append(@, [index |-> idx[c], provider |-> p.provider])]
           /\ Used(p.provider)
           /\ IF Configured(p.provider)
              THEN /\ inflight' = [inflight EXCEPT ![c] = @ \cup Send(c)]
                   /\ pc' = [pc EXCEPT ![c] = "await"]
                   /\ UNCHANGED <<idx, errors, providers, outcomes, message, finished>>
              ELSE /\ outcomes' = [outcomes EXCEPT ![c] = Append(@, "unconfigured")]
                   /\ message' = [message EXCEPT ![c] = NotConfiguredMessage(p.provider)]
                   /\ pc' = [pc EXCEPT ![c] = "thrown"]
                   /\ finished' = finished \cup {"thrown"}
                   /\ UNCHANGED <<idx, errors, providers, inflight>>
    /\ UNCHANGED <<env, chatVars, clientVars, constructed, ctorChain, prompt, options, result,
                   overlap, aiVars, created, keySeen, appVars>>

\* One turn of the for..of loop: provider.generate(prompt, options) is called
\* on the next provider.  An adapter without credential throws at once, which
\* the catch block records; otherwise the request goes out and the call waits.
Attempt(c) ==
    /\ pc[c] = "iter"
    /\ idx[c] <= Len(providers)
    /\ LET p == providers[idx[c]]
       IN  /\ attempts' = [attempts EXCEPT
                              ![c] = Append(@, [index |-> idx[c], provider |-> p.provider])]
           /\ Used(p.provider)
           /\ IF Configured(p.provider)
              THEN /\ inflight' = [inflight EXCEPT ![c] = @ \cup Send(c)]
                   /\ pc' = [pc EXCEPT ![c] = "await"]
                   /\ UNCHANGED <<idx, errors, providers, outcomes>>
              ELSE /\ Catch(c, ErrorEntry(p.provider, NotConfiguredMessage(p.provider)))
                   /\ outcomes' = [outcomes EXCEPT ![c] = Append(@, "unconfigured")]
                   /\ UNCHANGED inflight
    /\ UNCHANGED <<env, chatVars, clientVars, constructed, ctorChain, prompt, options, result,
                   message, overlap, finished, aiVars, created, keySeen, appVars>>

\* The remote service answers the request in flight: the adapter returns its
\* result, which generate returns, or throws, which the catch block records.
Respond(c, outcome) ==
    /\ pc[c] = "await"
    /\ \E r \in inflight[c] :
        LET p == providers[r.index]
        IN  /\ inflight' = [inflight EXCEPT ![c] = @ \ {r}]
            /\ outcomes' = [outcomes EXCEPT ![c] = Append(@, outcome)]
            /\ \E s \in Settlements(p, r.request.prompt, outcome) :
                IF s.resolved
                THEN /\ result' = [result EXCEPT ![c] = s.value]
                     /\ pc' = [pc EXCEPT ![c] = "returned"]
                     /\ finished' = finished \cup {"returned"}
                     /\ UNCHANGED <<idx, errors, providers>>
                ELSE /\ Catch(c, ErrorEntry(p.provider, s.reason))
                     /\ UNCHANGED <<result, finished>>
    /\ UNCHANGED <<env, chatVars, clientVars, constructed, ctorChain, prompt, options, message,
                   attempts, overlap, aiVars, ghostVars, appVars>>

\* The loop has run out of providers: throw new Error(`All providers failed:...`).
Exhausted(c) ==
    /\ pc[c] = "iter"
    /\ idx[c] > Len(providers)
    /\ message' = [message EXCEPT ![c] = AggregateMessage(errors[c])]
    /\ pc' = [pc EXCEPT ![c] = "thrown"]
    /\ finished' = finished \cup {"thrown"}
    /\ UNCHANGED <<env, chatVars, clientVars, gatewayVars, idx, errors, prompt, options, inflight,
                   result, attempts, outcomes, overlap, aiVars, ghostVars, appVars>>

(***************************************************************************)
(* createAI(provider, model) and AIProvider.generate called directly.      *)
(***************************************************************************)
CreateAI(provider, model) ==
    /\ ai = NoAI
    /\ ai' = NewAIProvider(provider, model)
    /\ aiAlias' = model
    /\ geminiClient' = InitializedGemini(env, geminiClient)
    /\ groqClient' = InitializedGroq(env, groqClient)
    /\ aiPc' = "idle"
    /\ aiOptions' = [k \in {} |-> 0]
    /\ aiInflight' = {}
    /\ aiValue' = NoResult
    /\ aiError' = <<>>
    /\ Constructions(1)
    /\ UNCHANGED <<env, chatVars, gatewayVars, callVars, firstUse, appVars>>

AIGenerate(text, opts) ==
    /\ ai # NoAI
    /\ aiPc # "await"
    /\ aiOptions' = opts
    /\ aiValue' = NoResult
    /\ IF Configured(ai.provider)
       THEN /\ aiInflight' = {AdapterRequest(ai, text, opts)}
            /\ aiPc' = "await"
            /\ aiError' = <<>>
       ELSE /\ aiInflight' = {}
            /\ aiPc' = "rejected"
            /\ aiError' = NotConfiguredMessage(ai.provider)
    /\ Used(ai.provider)
    /\ UNCHANGED <<env, chatVars, clientVars, gatewayVars, callVars, ai, aiAlias, created, keySeen,
                   appVars>>

AIRespond(outcome) ==
    /\ aiPc = "await"
    /\ \E r \in aiInflight :
        /\ aiInflight' = {}
        /\ IF outcome = "ok"
           THEN /\ aiValue' = AdapterResult(ai, r.prompt)
                /\ aiPc' = "resolved"
                /\ UNCHANGED aiError
           ELSE /\ aiError' = AdapterError(ai.provider, outcome)
                /\ aiPc' = "rejected"
                /\ UNCHANGED aiValue
    /\ UNCHANGED <<env, chatVars, clientVars, gatewayVars, callVars, ai, aiAlias, aiOptions,
                   ghostVars, appVars>>

(***************************************************************************)
(* The route handlers that call the gateway.                               *)
(***************************************************************************)
CAREER_RECOMMEND == "POST /api/career/recommend"
INTERVIEW_QUESTIONS == "POST /api/interview/questions"
INTERVIEW_EVALUATE == "POST /api/interview/evaluate"
RESUME_ANALYZE == "POST /api/resume/analyze"
CHATBOT_MESSAGE == "POST /api/chat/message"

GatewayRoutes ==
    {CAREER_RECOMMEND, INTERVIEW_QUESTIONS, INTERVIEW_EVALUATE, RESUME_ANALYZE,
     CHATBOT_MESSAGE}

\* The options each handler passes to smart.generate.
RouteOptions(rt) ==
    CASE rt = CAREER_RECOMMEND -> [temperature |-> 7, maxTokens |-> 2000]
      [] rt = INTERVIEW_QUESTIONS -> [temperature |-> 8, maxTokens |-> 2000]
      [] rt = INTERVIEW_EVALUATE -> [temperature |-> 6, maxTokens |-> 1024]
      [] rt = RESUME_ANALYZE -> [temperature |-> 6, maxTokens |-> 1500]
      [] rt = CHATBOT_MESSAGE -> [temperature |-> 7, maxTokens |-> 1024]

\* A request that has passed the handler's guards and input checks: the
\* handler runs createSmartAI([GEMINI, GROQ]) and smart.generate(prompt, ...)
\* up to the first await of the loop.
GatewayCall(rt, text) ==
    /\ route = NoRoute
    /\ ~constructed
    /\ route' = rt
    /\ response' = NoResponse
    /\ constructed' = TRUE
    /\ ctorChain' = DefaultChain
    /\ providers' = MapProviders(DefaultChain)
    /\ geminiClient' = InitializedGemini(env, geminiClient)
    /\ groqClient' = InitializedGroq(env, groqClient)
    /\ Constructions(Len(DefaultChain))
    /\ pc' = [pc EXCEPT ![FirstCall] = "iter"]
    /\ prompt' = [prompt EXCEPT ![FirstCall] = text]
    /\ options' = [options EXCEPT ![FirstCall] = RouteOptions(rt)]
    /\ UNCHANGED <<env, chatVars, idx, errors, inflight, result, message, attempts, outcomes,
                   overlap, finished, aiVars, firstUse>>

RouteRequest(rt) ==
    /\ GatewayCall(rt, PromptOf(FirstCall))
    /\ UNCHANGED authVars

\* What the handler answers once smart.generate has settled.
\*   generated: the call returned and the handler could use the text
\*   unusable:  the call returned and the handler's JSON parsing or shape
\*              check threw (the chatbot does neither)
\*   failed:    the call threw 'All providers failed'
HandlerResponse(rt, how) ==
    IF rt = CHATBOT_MESSAGE
    THEN IF how = "failed"
         THEN [status |-> 500, success |-> FALSE, content |-> "apology"]
         ELSE [status |-> 200, success |-> TRUE, content |-> "generated"]
    ELSE IF how = "generated"
         THEN [status |-> 200, success |-> TRUE, content |-> "generated"]
         ELSE [status |-> 200, success |-> TRUE, content |-> "fallback"]

GatewayAnswer(usable) ==
    /\ route # NoRoute
    /\ response = NoResponse
    /\ pc[FirstCall] \in {"returned", "thrown"}
    /\ response' = HandlerResponse(route,
                        IF pc[FirstCall] = "thrown" THEN "failed"
                        ELSE IF usable THEN "generated" ELSE "unusable")
    /\ UNCHANGED <<env, chatVars, clientVars, gatewayVars, callVars, aiVars, ghostVars, route>>

RouteAnswer(usable) ==
    /\ GatewayAnswer(usable)
    /\ UNCHANGED authVars

(***************************************************************************)
(* The auth and profile routers.  A string a handler looks into (email,    *)
(* password) is the sequence of its characters.  Every request works on    *)
(* its own req.session, loaded from the session store when the request     *)
(* arrives and written back when the response ends if the handler has      *)
(* changed it; destroy removes the store's entry.                          *)
(***************************************************************************)
MinPasswordLength == 6

\* emailRegex.test(email) for /^[^\s@]+@[^\s@]+\.[^\s@]+$/
EmailRegexTest(email) ==
    \E i \in 2..Len(email) :
        \E j \in (i + 2)..(Len(email) - 1) :
            /\ email[i] = "@"
            /\ email[j] = "."
            /\ \A k \in (1..Len(email)) \ {i} : email[k] \notin {" ", "\t", "\n", "@"}

AnnEmail == <<"a", "@", "x", ".", "y">>
BobEmail == <<"b", "@", "x", ".", "y">>
NoDotEmail == <<"a", "@", "x">>
Secret == <<"s", "e", "c", "r", "e", "t">>
Hunter == <<"h", "u", "n", "t", "e", "r">>
Short == <<"s", "e", "c">>

\* The bodies of the register, login and profile update requests.
RegisterBodies ==
    {[name |-> "Ann", email |-> AnnEmail, password |-> Secret],
     [name |-> "Bob", email |-> BobEmail, password |-> Hunter],
     [name |-> "", email |-> AnnEmail, password |-> Secret],
     [name |-> "Ann", email |-> AnnEmail, password |-> Short],
     [name |-> "Ann", email |-> NoDotEmail, password |-> Secret]}

LoginBodies ==
    {[email |-> AnnEmail, password |-> Secret],
     [email |-> AnnEmail, password |-> Hunter],
     [email |-> BobEmail, password |-> Hunter],
     [email |-> <<>>, password |-> Secret]}

UpdateNames == {"", "Anna"}

\* The id Firestore gives the next document of the collection.
NewId == "user-" \o ToString(Len(users) + 1)

\* where('email', '==', email): the positions of the matching documents.
Matching(email) == {i \in DOMAIN users : users[i].email = email}

\* A request that has been answered.
Done(kind, status, error, wrote) ==
    [kind |-> kind, stage |-> "done", status |-> status, error |-> error, wrote |-> wrote]

\* A request that has been answered with a success body.
Answered(kind, status, body, wrote) ==
    [kind |-> kind, stage |-> "done", status |-> status, error |-> "", body |-> body,
     wrote |-> wrote]

Free(r) == requests[r].stage \in {"idle", "done"}

\* What the end of the response does to the store: the request's session is
\* saved when the handler has changed it.
Saved(loaded, session) == IF session = loaded THEN store ELSE session

\* req.session.userId = id; req.session.user = { id, name, email }
SessionForIdOnly(id, name, email) == [userId |-> id, user |-> NoUser]

SessionFor(id, name, email) ==
    [userId |-> id, user |-> [id |-> id, name |-> name, email |-> email]]

\* The body of register's 201 response.
RegisterBody(id, name, email) ==
    [success |-> TRUE, message |-> "Registration successful",
     user |-> [id |-> id, name |-> name, email |-> email]]

\* POST /register up to its first await.
RegisterStart(r, body) ==
    /\ Free(r)
    /\ requests' = [requests EXCEPT ![r] =
            IF ~Truthy(body.name) \/ body.email = <<>> \/ body.password = <<>>
            THEN Done("register", 400, "All fields are required", FALSE)
            ELSE IF Len(body.password) < MinPasswordLength
            THEN Done("register", 400, "Password must be at least 6 characters", FALSE)
            ELSE IF ~EmailRegexTest(body.email)
            THEN Done("register", 400, "Invalid email format", FALSE)
            ELSE [kind |-> "register", stage |-> "query", body |-> body,
                  session |-> store, wrote |-> FALSE]]
    /\ UNCHANGED <<env, chatVars, clientVars, gatewayVars, callVars, aiVars, ghostVars, handlerVars,
                   users, store, loggedOut>>

\* The users query has run and the handler goes on to the add.
RegisterQueried(r) ==
    /\ requests[r].kind = "register"
    /\ requests[r].stage = "query"
    /\ requests' = [requests EXCEPT ![r] =
            IF Matching(@.body.email) # {}
            THEN Done("register", 400, "User already exists", @.wrote)
            ELSE [@ EXCEPT !.stage = "add"]]
    /\ UNCHANGED <<env, chatVars, clientVars, gatewayVars, callVars, aiVars, ghostVars, handlerVars,
                   users, store, loggedOut>>

\* The add has run; the handler sets the session and answers 201.
RegisterAdded(r) ==
    /\ requests[r].kind = "register"
    /\ requests[r].stage = "add"
    /\ Len(users) < MaxUsers
    /\ LET q == requests[r]
           session == SessionFor(NewId, q.body.name, q.body.email)
       IN  /\ users' = Append(users, [id |-> NewId, name |-> q.body.name,
                                      email |-> q.body.email,
                                      password |-> q.body.password,
                                      profileComplete |-> FALSE])
           /\ store' = Saved(q.session, session)
           /\ requests' = [requests EXCEPT ![r] =
                    Answered("register", 201,
                             RegisterBody(NewId, q.body.name, q.body.email), TRUE)]
           /\ loggedOut' = FALSE
    /\ UNCHANGED <<env, chatVars, clientVars, gatewayVars, callVars, aiVars, ghostVars, handlerVars>>

\* POST /login up to its await.
LoginStart(r, body) ==
    /\ Free(r)
    /\ requests' = [requests EXCEPT ![r] =
            IF body.email = <<>> \/ body.password = <<>>
            THEN Done("login", 400, "Email and password are required", FALSE)
            ELSE [kind |-> "login", stage |-> "query", body |-> body,
                  session |-> store, wrote |-> FALSE]]
    /\ UNCHANGED <<env, chatVars, clientVars, gatewayVars, callVars, aiVars, ghostVars, handlerVars,
                   users, store, loggedOut>>

\* The session of a login request after the password comparison.
SessionAfterLoginEager(session, doc, verified) == SessionFor(doc.id, doc.name, doc.email)

SessionAfterLogin(session, doc, verified) ==
    IF verified THEN SessionFor(doc.id, doc.name, doc.email) ELSE session

\* The body of login's 200 response.
LoginBody(doc) ==
    [success |-> TRUE, message |-> "Login successful",
     user |-> [id |-> doc.id, name |-> doc.name, email |-> doc.email,
               profileComplete |-> doc.profileComplete]]

\* userData.password !== password
PasswordVerified(doc, password) == doc.password = password

\* What login answers once the document is found.
LoginAnswer(doc, password, wrote) ==
    IF PasswordVerified(doc, password)
    THEN Answered("login", 200, LoginBody(doc), wrote)
    ELSE Done("login", 401, "Invalid credentials", wrote)

\* The query (limit 1) has run; the handler compares the password and answers.
LoginQueried(r) ==
    /\ requests[r].kind = "login"
    /\ requests[r].stage = "query"
    /\ LET q == requests[r]
       IN  IF Matching(q.body.email) = {}
           THEN /\ requests' = [requests EXCEPT ![r] =
                                    Done("login", 401, "Invalid credentials", q.wrote)]
                /\ UNCHANGED <<store, loggedOut>>
           ELSE \E i \in Matching(q.body.email) :
                    LET doc == users[i]
                        verified == PasswordVerified(doc, q.body.password)
                        session == SessionAfterLogin(q.session, doc, verified)
                    IN  /\ store' = Saved(q.session, session)
                        /\ requests' = [requests EXCEPT ![r] =
                                LoginAnswer(doc, q.body.password,
                                            q.wrote \/ store' # store)]
                        /\ loggedOut' = (loggedOut /\ ~verified)
    /\ UNCHANGED <<env, chatVars, clientVars, gatewayVars, callVars, aiVars, ghostVars, handlerVars,
                   users>>

\* POST /logout: req.session.destroy.
Logout(r) ==
    /\ Free(r)
    /\ store' = NoSession
    /\ requests' = [requests EXCEPT ![r] =
            Answered("logout", 200, [success |-> TRUE, message |-> "Logout successful"],
                     store # NoSession)]
    /\ loggedOut' = TRUE
    /\ UNCHANGED <<env, chatVars, clientVars, gatewayVars, callVars, aiVars, ghostVars, handlerVars,
                   users>>

\* The guards in front of the routers' handlers and of the pages.
RequireAuth(session) == Truthy(session.userId)
RequireAuthChatbot(session) == session.user # NoUser
RequireAuthResume(session) == session.user # NoUser
RequireAuthProgress(session) ==
    session.user # NoUser /\ Truthy(GetProperty(session.user, "uid"))
RequireAuthPage(session) == session.user # NoUser

\* PUT /api/profile/update up to its await.
ProfileUpdateStart(r, name) ==
    /\ Free(r)
    /\ requests' = [requests EXCEPT ![r] =
            IF ~RequireAuth(store)
            THEN Done("update", 401, "Authentication required", FALSE)
            ELSE IF ~Truthy(name)
            THEN Done("update", 400, "Name is required", FALSE)
            ELSE [kind |-> "update", stage |-> "update", body |-> [name |-> name],
                  session |-> store, wrote |-> FALSE]]
    /\ UNCHANGED <<env, chatVars, clientVars, gatewayVars, callVars, aiVars, ghostVars, handlerVars,
                   users, store, loggedOut>>

\* The body of the profile update's 200 response: updateData.
ProfileUpdateBody(name) ==
    [success |-> TRUE, message |-> "Profile updated successfully",
     profile |-> [name |-> name]]

\* The document update has run; the handler renames the session's user.
ProfileUpdated(r) ==
    /\ requests[r].kind = "update"
    /\ requests[r].stage = "update"
    /\ LET q == requests[r]
       IN  \E i \in DOMAIN users :
            /\ users[i].id = q.session.userId
            /\ users' = [users EXCEPT ![i].name = q.body.name]
            /\ IF q.session.user = NoUser
               THEN /\ UNCHANGED store
                    /\ requests' = [requests EXCEPT ![r] =
                            Done("update", 500, "Failed to update profile", TRUE)]
               ELSE /\ store' = Saved(q.session, [q.session EXCEPT !.user.name = q.body.name])
                    /\ requests' = [requests EXCEPT ![r] =
                            Answered("update", 200, ProfileUpdateBody(q.body.name), TRUE)]
    /\ UNCHANGED <<env, chatVars, clientVars, gatewayVars, callVars, aiVars, ghostVars, handlerVars,
                   loggedOut>>

\* The body GET /check answers for a session.
CheckBody(session) ==
    IF Truthy(session.userId)
    THEN [authenticated |-> TRUE, user |-> session.user]
    ELSE [authenticated |-> FALSE]

\* GET /api/auth/check.
CheckAuth(r) ==
    /\ Free(r)
    /\ requests' = [requests EXCEPT ![r] = Answered("check", 200, CheckBody(store), FALSE)]
    /\ UNCHANGED <<env, chatVars, clientVars, gatewayVars, callVars, aiVars, ghostVars, handlerVars,
                   users, store, loggedOut>>

\* GET /api/profile up to its await.
ProfileGet(r) ==
    /\ Free(r)
    /\ requests' = [requests EXCEPT ![r] =
            IF ~RequireAuth(store)
            THEN Done("get", 401, "Authentication required", FALSE)
            ELSE [kind |-> "get", stage |-> "get", session |-> store, wrote |-> FALSE]]
    /\ UNCHANGED <<env, chatVars, clientVars, gatewayVars, callVars, aiVars, ghostVars, handlerVars,
                   users, store, loggedOut>>

\* The body of GET /api/profile: delete userData.password, then
\* { id: userDoc.id, ...userData }.
ProfileGetBodyRaw(doc) == [success |-> TRUE, profile |-> doc]

ProfileGetBody(doc) ==
    [success |-> TRUE,
     profile |-> [field \in DOMAIN doc \ {"password"} |-> doc[field]]]

\* The document has been read; the handler answers.
ProfileGot(r) ==
    /\ requests[r].kind = "get"
    /\ requests[r].stage = "get"
    /\ LET q == requests[r]
           found == {i \in DOMAIN users : users[i].id = q.session.userId}
       IN  requests' = [requests EXCEPT ![r] =
                IF found = {}
                THEN Done("get", 404, "User not found", FALSE)
                ELSE Answered("get", 200,
                              ProfileGetBody(users[CHOOSE i \in found : TRUE]), FALSE)]
    /\ UNCHANGED <<env, chatVars, clientVars, gatewayVars, callVars, aiVars, ghostVars, handlerVars,
                   users, store, loggedOut>>

\* The messages a browser posts to the chatbot.
ChatMessages == {<<>>, <<" ">>, <<"h", "i">>}

\* value || 'Not provided'
OrNotProvided(doc, field) ==
    IF Truthy(GetProperty(doc, field)) THEN doc[field] ELSE "Not provided"

\* The prompt the chatbot handler builds from the user's document.
ChatPrompt(doc, text) ==
    <<"You are the CareerGenie AI. ...", "\n\n",
      "\nUser Profile:\n- Name: ", OrNotProvided(doc, "name"),
      "\n- Skills: ", OrNotProvided(doc, "skills"),
      "\n- Degree: ", OrNotProvided(doc, "degree"),
      "\n- College: ", OrNotProvided(doc, "college"),
      "\n\nKeep this profile in mind when providing advice.\n      ",
      "\n\nUser Question: ">> \o text

\* POST /api/chat/message up to its first await.
ChatStart(r, text) ==
    /\ Free(r)
    /\ route = NoRoute
    /\ requests' = [requests EXCEPT ![r] =
            IF ~RequireAuthChatbot(store)
            THEN Done("chat", 401, "Unauthorized. Please login.", FALSE)
            ELSE IF text = <<>> \/ Trim(text) = <<>>
            THEN Done("chat", 400, "Message is required", FALSE)
            ELSE [kind |-> "chat", stage |-> "profile", body |-> [message |-> text],
                  session |-> store, wrote |-> FALSE]]
    /\ UNCHANGED <<env, chatVars, clientVars, gatewayVars, callVars, aiVars, ghostVars, handlerVars,
                   users, store, loggedOut>>

\* The user's document has been read: the handler builds the prompt and
\* calls the gateway.
ChatProfiled(r) ==
    /\ requests[r].kind = "chat"
    /\ requests[r].stage = "profile"
    /\ LET q == requests[r]
       IN  \E i \in DOMAIN users :
            /\ users[i].id = q.session.user.id
            /\ GatewayCall(CHATBOT_MESSAGE, ChatPrompt(users[i], q.body.message))
    /\ requests' = [requests EXCEPT ![r].stage = "generate"]
    /\ UNCHANGED <<users, store, loggedOut>>

\* The gateway call has settled; the handler answers.
ChatAnswered(r) ==
    /\ requests[r].kind = "chat"
    /\ requests[r].stage = "generate"
    /\ GatewayAnswer(TRUE)
    /\ requests' = [requests EXCEPT ![r] =
            IF pc[FirstCall] = "thrown"
            THEN Done("chat", 500, "Failed to process message", FALSE)
            ELSE Answered("chat", 200,
                          [success |-> TRUE, reply |-> result[FirstCall].text,
                           provider |-> result[FirstCall].provider], FALSE)]
    /\ UNCHANGED <<users, store, loggedOut>>

(***************************************************************************)
(* A credential is added to process.env while the process runs.            *)
(***************************************************************************)
SetEnv(key) ==
    /\ key \notin env
    /\ env' = env \cup {key}
    /\ UNCHANGED <<clientVars, gatewayVars, callVars, aiVars, ghostVars, appVars, chatVars>>

(***************************************************************************)
(* Specifications.                                                         *)
(***************************************************************************)
Init ==
    /\ env \in SUBSET EnvKeys
    /\ geminiClient = FALSE
    /\ groqClient = FALSE
    /\ constructed = FALSE
    /\ ctorChain = <<>>
    /\ providers = <<>>
    /\ pc = [c \in Calls |-> "idle"]
    /\ idx = [c \in Calls |-> 1]
    /\ errors = [c \in Calls |-> <<>>]
    /\ prompt = [c \in Calls |-> ""]
    /\ options = [c \in Calls |-> EmptyBag]
    /\ inflight = [c \in Calls |-> {}]
    /\ result = [c \in Calls |-> NoResult]
    /\ message = [c \in Calls |-> <<>>]
    /\ attempts = [c \in Calls |-> <<>>]
    /\ outcomes = [c \in Calls |-> <<>>]
    /\ overlap = [c \in Calls |-> FALSE]
    /\ finished = {}
    /\ ai = NoAI
    /\ aiAlias = Undefined
    /\ aiPc = "idle"
    /\ aiOptions = EmptyBag
    /\ aiInflight = {}
    /\ aiValue = NoResult
    /\ aiError = <<>>
    /\ firstUse = [p \in AI_PROVIDERS |-> "unused"]
    /\ created = [p \in {GEMINI, GROQ} |-> 0]
    /\ keySeen = [p \in {GEMINI, GROQ} |-> FALSE]
    /\ route = NoRoute
    /\ response = NoResponse
    /\ users = <<>>
    /\ store = NoSession
    /\ requests = [r \in Requests |-> IdleRequest]
    /\ loggedOut = FALSE
    /\ history = <<>>
    /\ sends = [c \in Calls |-> IdleSend]
    /\ messages = <<>>
    /\ fetches = [c \in Calls |-> "idle"]

\* The options the callers of the gateway pass: none, or both fields.
GatewayBags == {EmptyBag, [temperature |-> 3, maxTokens |-> 256]}

\* One gateway over any chain; its generate calls follow one another.

Next ==
    \/ \E chain \in Chains : CreateSmartAI(chain)
    \/ \E opts \in GatewayBags : Generate(FirstCall, PromptOf(FirstCall), opts)
    \/ Attempt(FirstCall)
    \/ \E outcome \in Outcomes : Respond(FirstCall, outcome)
    \/ Exhausted(FirstCall)

Spec == Init /\ [][Next]_vars

\* One gateway over the default chain; its generate calls overlap.
NextConcurrent ==
    \/ CreateSmartAI(DefaultChain)
    \/ \E c \in Calls : Generate(c, PromptOf(c), EmptyBag)
    \/ \E c \in Calls : Attempt(c)
    \/ \E c \in Calls, outcome \in Outcomes : Respond(c, outcome)
    \/ \E c \in Calls : Exhausted(c)

SpecConcurrent == Init /\ [][NextConcurrent]_vars

\* One AIProvider made by createAI and called directly.
NextAdapter ==
    \/ \E provider \in AI_PROVIDERS, model \in Aliases : CreateAI(provider, model)
    \/ \E opts \in OptionBags : AIGenerate(PromptOf(FirstCall), opts)
    \/ \E outcome \in Outcomes : AIRespond(outcome)

SpecAdapter == Init /\ [][NextAdapter]_vars

\* One gateway whose providers may also answer with a body without completion.
NextPayload ==
    \/ \E chain \in Chains : CreateSmartAI(chain)
    \/ Generate(FirstCall, PromptOf(FirstCall), EmptyBag)
    \/ Attempt(FirstCall)
    \/ \E outcome \in Outcomes \cup PayloadOutcomes : Respond(FirstCall, outcome)
    \/ Exhausted(FirstCall)

SpecPayload == Init /\ [][NextPayload]_vars

\* One gateway and one AIProvider made by createAI, constructed in either
\* order while credentials are added to process.env.  The constructor
\* runs initializeClients whatever the provider is: Ollama stands for all.
NextEnv ==
    \/ \E chain \in Chains : CreateSmartAI(chain)
    \/ CreateAI(OLLAMA, Undefined)
    \/ Generate(FirstCall, PromptOf(FirstCall), EmptyBag)
    \/ Attempt(FirstCall)
    \/ \E outcome \in {"ok", "status"} : Respond(FirstCall, outcome)
    \/ Exhausted(FirstCall)
    \/ \E key \in EnvKeys : SetEnv(key)

SpecEnv == Init /\ [][NextEnv]_vars

\* One request to one of the handlers that call the gateway.
NextRoutes ==
    \/ \E rt \in GatewayRoutes : RouteRequest(rt)
    \/ Attempt(FirstCall)
    \/ \E outcome \in Outcomes : Respond(FirstCall, outcome)
    \/ Exhausted(FirstCall)
    \/ \E usable \in BOOLEAN : RouteAnswer(usable)

SpecRoutes == Init /\ [][NextRoutes]_vars

\* One browser whose requests to the auth and profile routers come one after
\* another.
NextAuth ==
    \/ \E body \in RegisterBodies : RegisterStart(FirstRequest, body)
    \/ RegisterQueried(FirstRequest)
    \/ RegisterAdded(FirstRequest)
    \/ \E body \in LoginBodies : LoginStart(FirstRequest, body)
    \/ LoginQueried(FirstRequest)
    \/ Logout(FirstRequest)
    \/ \E name \in UpdateNames : ProfileUpdateStart(FirstRequest, name)
    \/ ProfileUpdated(FirstRequest)

SpecAuth == Init /\ [][NextAuth]_vars

\* Register requests that overlap.
NextRegister ==
    \E r \in Requests :
        \/ \E body \in RegisterBodies : RegisterStart(r, body)
        \/ RegisterQueried(r)
        \/ RegisterAdded(r)

SpecRegister == Init /\ [][NextRegister]_vars

\* One browser whose requests to the auth and profile routers overlap; the
\* bodies are the ones that pass the handlers' input checks.
NextSession ==
    \E r \in Requests :
        \/ RegisterStart(r, [name |-> "Ann", email |-> AnnEmail, password |-> Secret])
        \/ RegisterQueried(r)
        \/ RegisterAdded(r)
        \/ LoginStart(r, [email |-> AnnEmail, password |-> Secret])
        \/ LoginQueried(r)
        \/ Logout(r)
        \/ ProfileUpdateStart(r, "Anna")
        \/ ProfileUpdated(r)
        \/ CheckAuth(r)

SpecSession == Init /\ [][NextSession]_vars

(***************************************************************************)
(* createChatSession: the session object made of an AIProvider (CreateAI)  *)
(* and a history array; its send calls may overlap.                        *)
(***************************************************************************)
\* history.map(h => `${h.role}: ${h.content}`).join('\n')
FullPrompt(entries) ==
    Join([i \in DOMAIN entries |-> <<entries[i].role, ": ", entries[i].content>>], "\n")

\* send(message) up to its await: the user entry is pushed and ai.generate
\* is called with the whole history.
ChatSend(c, text) ==
    /\ ai # NoAI
    /\ sends[c].stage = "idle"
    /\ history' = Append(history, [role |-> "user", content |-> text])
    /\ sends' = [sends EXCEPT ![c] =
            IF Configured(ai.provider)
            THEN [stage |-> "await", request |-> AdapterRequest(ai, FullPrompt(history'), EmptyBag)]
            ELSE [stage |-> "rejected", error |-> NotConfiguredMessage(ai.provider)]]
    /\ Used(ai.provider)
    /\ UNCHANGED <<env, clientVars, gatewayVars, callVars, aiVars, created, keySeen, appVars,
                   messages, fetches>>

\* ai.generate settles: the reply is pushed, or send rejects.
ChatSettle(c, outcome) ==
    /\ sends[c].stage = "await"
    /\ IF outcome = "ok"
       THEN LET value == AdapterResult(ai, sends[c].request.prompt)
            IN  /\ history' = Append(history, [role |-> "assistant", content |-> value.text])
                /\ sends' = [sends EXCEPT ![c] = [stage |-> "resolved", value |-> value.text]]
       ELSE /\ sends' = [sends EXCEPT ![c] =
                    [stage |-> "rejected", error |-> AdapterError(ai.provider, outcome)]]
            /\ UNCHANGED history
    /\ UNCHANGED <<env, clientVars, gatewayVars, callVars, aiVars, ghostVars, appVars,
                   messages, fetches>>

NextChat ==
    \/ \E provider \in AI_PROVIDERS : CreateAI(provider, "default")
    \/ \E c \in Calls, text \in {"hi", "why"} : ChatSend(c, text)
    \/ \E c \in Calls, outcome \in Outcomes : ChatSettle(c, outcome)

SpecChat == Init /\ [][NextChat]_vars

(***************************************************************************)
(* The browser chat widget.  A child of chatMessages is a record of its    *)
(* class, its innerHTML and the sendMessage call that created it (0: none).*)
(***************************************************************************)
Loading == <<"<div class=\"loading\"></div>">>
Welcome == <<"Hello! I'm your CareerGenie assistant. How can I help you today?">>
FetchOutcomes == {"success", "failure", "network"}

\* addMessage(type, text) by call c
AddMessage(list, type, text, c) == Append(list, [type |-> type, html |-> text, by |-> c])

\* messages.removeChild(messages.lastChild)
RemoveLastChild(list) == SubSeq(list, 1, Len(list) - 1)

\* openChatbot(): the welcome message is added to an empty list.
OpenChatbot ==
    /\ messages = <<>>
    /\ messages' = AddMessage(messages, "bot", Welcome, 0)
    /\ UNCHANGED <<env, clientVars, gatewayVars, callVars, aiVars, ghostVars, appVars,
                   history, sends, fetches>>

\* sendMessage() up to its first await, with the text of the input box.
SendMessage(c, text) ==
    /\ fetches[c] = "idle"
    /\ IF Trim(text) = <<>>
       THEN /\ fetches' = [fetches EXCEPT ![c] = "returned"]
            /\ UNCHANGED messages
       ELSE /\ messages' = AddMessage(AddMessage(messages, "user", Trim(text), c),
                                      "bot", Loading, c)
            /\ fetches' = [fetches EXCEPT ![c] = "await"]
    /\ UNCHANGED <<env, clientVars, gatewayVars, callVars, aiVars, ghostVars, appVars,
                   history, sends>>

\* What the bot message says after each kind of answer.
BotText(outcome) ==
    CASE outcome = "success" -> <<"data.response">>
      [] outcome = "failure" -> <<"Sorry, I encountered an error. Please try again.">>
      [] outcome = "network" -> <<"Sorry, I'm having trouble connecting. Please try again.">>

\* The fetch of call c settles: the last child is removed and the bot
\* message is added.
FetchSettled(c, outcome) ==
    /\ fetches[c] = "await"
    /\ messages' = AddMessage(RemoveLastChild(messages), "bot", BotText(outcome), c)
    /\ fetches' = [fetches EXCEPT ![c] = "done"]
    /\ UNCHANGED <<env, clientVars, gatewayVars, callVars, aiVars, ghostVars, appVars,
                   history, sends>>

NextWidget ==
    \/ OpenChatbot
    \/ \E c \in Calls, text \in ChatMessages : SendMessage(c, text)
    \/ \E c \in Calls, outcome \in FetchOutcomes : FetchSettled(c, outcome)

SpecWidget == Init /\ [][NextWidget]_vars

(***************************************************************************)
(* POST /api/interview/evaluate.  A JSON value is a record of its typeof   *)
(* and its value; an answer is the sequence of its words.                  *)
(***************************************************************************)
Metrics == {"communication", "technical", "clarity", "confidence", "correctness"}

Number(n) == [type |-> "number", value |-> n]

\* The values a provider's JSON may give a metric.
ScoreValues ==
    {Number(-1), Number(0), Number(10), Number(11),
     [type |-> "string", value |-> 8], [type |-> "undefined", value |-> 0]}

\* The objects safeJsonParse may return for a provider's text.
ProviderEvaluations == [Metrics -> ScoreValues]

\* if (typeof evaluation[metric] !== 'number' || evaluation[metric] < 0)
\*     evaluation[metric] = 7
ValidatedScore(v) == IF v.type # "number" \/ v.value < 0 THEN Number(7) ELSE v

Validated(evaluation) == [m \in Metrics |-> ValidatedScore(evaluation[m])]

Filler(n) == [i \in 1..n |-> "word"]

\* The answers a candidate posts: short, medium, long and very long ones,
\* with and without the words the quality tests look for.
Answers ==
    {Filler(n) \o marks :
        n \in {1, 19, 49, 99},
        marks \in {<<>>, <<"example", "api", "42", "exactly">>}}

\* answer.trim().split(' ').length
AnswerLength(answer) == Len(answer)

Min(a, b) == IF a < b THEN a ELSE b
Max(a, b) == IF a > b THEN a ELSE b

\* Math.floor(Math.random() * n)
Random(n) == 0..(n - 1)

\* The scores generateFallbackEvaluation may draw for one metric of an
\* answer of the given length.
DrawnScores(length, m) ==
    IF length < 20 THEN {Max(4, r + 5) : r \in Random(2)}
    ELSE IF length < 50
    THEN {r + (IF m = "clarity" THEN 7 ELSE 6) : r \in Random(2)}
    ELSE IF length >= 100
    THEN {Min(10, r + (IF m \in {"technical", "confidence"} THEN 7 ELSE 8)) :
              r \in Random(2)}
    ELSE {r + 6 : r \in Random(3)}

\* The quality tests: each adds one to its metric, up to 10.
QualityWords(m) ==
    CASE m = "communication" -> {"example", "instance", "experience", "project", "case"}
      [] m = "technical" -> {"code", "algorithm", "data", "system", "api", "database",
                              "framework"}
      [] m = "correctness" -> {"42"}
      [] m = "clarity" -> {"specific", "particular", "exactly", "precisely"}
      [] OTHER -> {}

Adjusted(score, answer, m) ==
    IF \E i \in DOMAIN answer : answer[i] \in QualityWords(m)
    THEN Min(10, score + 1)
    ELSE score

\* generateFallbackEvaluation(answer)
FallbackEvaluations(answer) ==
    {[m \in Metrics |-> Number(Adjusted(drawn[m], answer, m))] :
        drawn \in {d \in [Metrics -> 4..10] :
                      \A m \in Metrics : d[m] \in DrawnScores(AnswerLength(answer), m)}}

EvaluateResponse(how, evaluation) ==
    [status |-> 200, success |-> TRUE, content |-> how, evaluation |-> evaluation]

\* POST /evaluate up to the first await of the gateway loop.
EvaluateRequest(r, answer) ==
    /\ Free(r)
    /\ IF answer = <<>>
       THEN /\ requests' = [requests EXCEPT ![r] =
                    Done("evaluate", 400, "Question and answer are required", FALSE)]
            /\ UNCHANGED <<env, chatVars, clientVars, gatewayVars, callVars, aiVars, ghostVars,
                           handlerVars>>
       ELSE /\ GatewayCall(INTERVIEW_EVALUATE, PromptOf(FirstCall))
            /\ requests' = [requests EXCEPT ![r] =
                    [kind |-> "evaluate", stage |-> "generate",
                     body |-> [answer |-> answer], wrote |-> FALSE]]
    /\ UNCHANGED <<users, store, loggedOut>>

\* The gateway call has settled: the handler parses and validates the text,
\* or falls back, and answers.
EvaluateAnswered(r) ==
    /\ requests[r].kind = "evaluate"
    /\ requests[r].stage = "generate"
    /\ pc[FirstCall] \in {"returned", "thrown"}
    /\ \/ /\ pc[FirstCall] = "returned"
          /\ \E parsed \in ProviderEvaluations :
                response' = EvaluateResponse("generated", Validated(parsed))
       \/ \E evaluation \in FallbackEvaluations(requests[r].body.answer) :
                response' = EvaluateResponse("fallback", evaluation)
    /\ requests' = [requests EXCEPT ![r] = Done("evaluate", 200, "", FALSE)]
    /\ UNCHANGED <<env, chatVars, clientVars, gatewayVars, callVars, aiVars, ghostVars, route,
                   users, store, loggedOut>>

NextEvaluate ==
    \/ \E answer \in Answers \cup {<<>>} : EvaluateRequest(FirstRequest, answer)
    \/ Attempt(FirstCall)
    \/ \E outcome \in Outcomes : Respond(FirstCall, outcome)
    \/ Exhausted(FirstCall)
    \/ EvaluateAnswered(FirstRequest)

SpecEvaluate == Init /\ [][NextEvaluate]_vars

\* One browser whose requests come one after another, to every handler that
\* reads the users collection or the session.
NextPrivacy ==
    \/ \E body \in RegisterBodies : RegisterStart(FirstRequest, body)
    \/ RegisterQueried(FirstRequest)
    \/ RegisterAdded(FirstRequest)
    \/ \E body \in LoginBodies : LoginStart(FirstRequest, body)
    \/ LoginQueried(FirstRequest)
    \/ CheckAuth(FirstRequest)
    \/ ProfileGet(FirstRequest)
    \/ ProfileGot(FirstRequest)
    \/ \E name \in UpdateNames : ProfileUpdateStart(FirstRequest, name)
    \/ ProfileUpdated(FirstRequest)
    \/ \E text \in ChatMessages : ChatStart(FirstRequest, text)
    \/ ChatProfiled(FirstRequest)
    \/ Attempt(FirstCall)
    \/ \E outcome \in Outcomes : Respond(FirstCall, outcome)
    \/ Exhausted(FirstCall)
    \/ ChatAnswered(FirstRequest)

SpecPrivacy == Init /\ [][NextPrivacy]_vars

(***************************************************************************)
(* Reading a failure message back: its lines, and the entries after the    *)
(* header line.                                                            *)
(***************************************************************************)
RECURSIVE SplitLines(_)
SplitLines(s) ==
    IF \A i \in DOMAIN s : s[i] # "\n" THEN <<s>>
    ELSE LET k == CHOOSE i \in DOMAIN s : s[i] = "\n" /\ \A j \in 1..(i - 1) : s[j] # "\n"
         IN  <<SubSeq(s, 1, k - 1)>> \o SplitLines(SubSeq(s, k + 1, Len(s)))

NonEmpty(line) == line # <<>>

EntryLines(msg) == SelectSeq(Tail(SplitLines(msg)), NonEmpty)

IsFailure(outcome) == outcome # "ok"

\* The attempts of call c that have failed, in order.
Failures(c) == SelectSeq(outcomes[c], IsFailure)

\* The entry the catch block records for a provider whose attempt ended in
\* the given way.
EntryFor(provider, outcome) ==
    <<provider, ": ">>
        \o (IF outcome = "unconfigured" THEN NotConfiguredMessage(provider)
            ELSE AdapterError(provider, outcome))

(***************************************************************************)
(* C1: when the first K providers of the chain fail and provider K+1       *)
(* succeeds, generate returns the result of provider K+1 (its text, its    *)
(* identity, its resolved model) after exactly K+1 attempts, on providers  *)
(* 1..K+1 and no other.                                                    *)
(***************************************************************************)
C1_FirstSuccessWins ==
    \A c \in Calls :
        pc[c] = "returned" =>
            LET k == Len(errors[c])
            IN  /\ k < Len(ctorChain)
                /\ Failures(c) = SubSeq(outcomes[c], 1, k)
                /\ outcomes[c] = Failures(c) \o <<"ok">>
                /\ Len(attempts[c]) = k + 1
                /\ \A i \in 1..(k + 1) : attempts[c][i].index = i
                /\ inflight[c] = {}
                /\ result[c].provider = ctorChain[k + 1]
                /\ result[c].model = MODELS[ctorChain[k + 1]]["default"]
                /\ result[c].text = <<"Answer to ", prompt[c]>>

\* A call returned the second provider's result after the first one failed.
C1_Witness ==
    \E c \in Calls :
        /\ pc[c] = "returned"
        /\ Len(ctorChain) = 2
        /\ Len(errors[c]) = 1
        /\ ctorChain[1] # ctorChain[2]

(***************************************************************************)
(* C2: when all N providers of the chain fail, generate fails and its      *)
(* failure message holds exactly N entries, in chain order, each prefixed  *)
(* by the identity of the provider that failed.                            *)
(***************************************************************************)
C2_AllFailEntries ==
    \A c \in Calls :
        /\ (pc[c] # "idle" /\ Len(Failures(c)) = Len(ctorChain)) =>
                /\ pc[c] \in {"iter", "thrown"}
                /\ result[c] = NoResult
        /\ pc[c] = "thrown" =>
                LET entries == EntryLines(message[c])
                IN  /\ Len(Failures(c)) = Len(ctorChain)
                    /\ Len(entries) = Len(ctorChain)
                    /\ \A i \in DOMAIN entries :
                            /\ Len(entries[i]) > 2
                            /\ SubSeq(entries[i], 1, 2) = <<ctorChain[i], ": ">>

\* A call over a chain of two different providers failed.
C2_Witness ==
    \E c \in Calls :
        /\ pc[c] = "thrown"
        /\ Len(ctorChain) = 2
        /\ ctorChain[1] # ctorChain[2]

(***************************************************************************)
(* C3: the provider list of a gateway stays the one its constructor built, *)
(* and every generate call, whatever the earlier calls did, attempts the   *)
(* providers in the constructor's order.                                   *)
(***************************************************************************)
C3_ConstructorOrder ==
    constructed =>
        /\ Len(providers) = Len(ctorChain)
        /\ \A i \in DOMAIN providers : providers[i].provider = ctorChain[i]
        /\ \A c \in Calls : \A i \in DOMAIN attempts[c] :
                attempts[c][i] = [index |-> i, provider |-> ctorChain[i]]

\* After one call that returned and one that failed, a later call is at its
\* second attempt.
C3_Witness ==
    \E c \in Calls :
        /\ finished = {"returned", "thrown"}
        /\ pc[c] = "await"
        /\ Len(attempts[c]) = 2
        /\ ctorChain[1] # ctorChain[2]

C5_OneInFlight ==
    \A c \in Calls :
        /\ Cardinality(inflight[c]) <= 1
        /\ \A r \in inflight[c] :
                /\ pc[c] = "await"
                /\ r.index = idx[c]
                /\ Len(attempts[c]) = r.index
                /\ Len(outcomes[c]) = r.index - 1
                /\ \A i \in DOMAIN outcomes[c] : IsFailure(outcomes[c][i])

\* The request to the second provider is in flight, after the first provider
\* answered with a failure.
C5_Witness ==
    \E c \in Calls : \E r \in inflight[c] :
        /\ r.index = 2
        /\ outcomes[c] \in {<<"status">>, <<"malformed">>}

(***************************************************************************)
(* C6: with generate calls overlapping on one gateway, each call's errors, *)
(* aggregate failure and result come from its own attempts only.           *)
(***************************************************************************)
C6_CallsIndependent ==
    \A c \in Calls :
        /\ Len(errors[c]) = Len(Failures(c))
        /\ \A i \in DOMAIN errors[c] : errors[c][i] = EntryFor(ctorChain[i], Failures(c)[i])
        /\ pc[c] = "thrown" =>
                /\ Len(EntryLines(message[c])) = Len(ctorChain)
                /\ \A i \in DOMAIN errors[c] : EntryLines(message[c])[i] = errors[c][i]
        /\ pc[c] = "returned" =>
                /\ result[c].text = <<"Answer to ", PromptOf(c)>>
                /\ result[c].provider = ctorChain[Len(Failures(c)) + 1]

\* Two overlapping calls: one failed on every provider, the other returned.
C6_Witness ==
    \E c, d \in Calls :
        /\ c # d
        /\ overlap[c] /\ overlap[d]
        /\ pc[c] = "thrown" /\ Len(errors[c]) = 2
        /\ pc[d] = "returned" /\ errors[d] = <<>>

(***************************************************************************)
(* C7: within one generate call no chain entry is attempted twice.         *)
(***************************************************************************)
C7_AtMostOnce ==
    \A c \in Calls : \A i, j \in DOMAIN attempts[c] :
        i # j => attempts[c][i].index # attempts[c][j].index

\* A call went on to the second provider after the first one failed.
C7_Witness ==
    \E c \in Calls :
        /\ Len(attempts[c]) = 2
        /\ Len(errors[c]) >= 1
        /\ pc[c] \in {"await", "returned", "thrown"}

(***************************************************************************)
(* Reading a request: the output-token cap it carries, under whichever     *)
(* name the provider uses.                                                 *)
(***************************************************************************)
CapFields == {"maxOutputTokens", "max_tokens", "max_new_tokens"}

HasCap(request, n) == \E f \in CapFields \cap DOMAIN request : request[f] = n

(***************************************************************************)
(* C8 as stated: with an options bag that omits temperature and maxTokens, *)
(* every adapter passes temperature 0.7 and an output-token cap of 1024.   *)
(***************************************************************************)
C8_DefaultsEverywhere ==
    \A r \in aiInflight :
        aiOptions = EmptyBag => (r.temperature = 7 /\ HasCap(r, 1024))

(***************************************************************************)
(* C9 as stated: a temperature or maxTokens present in the options bag is  *)
(* sent to the provider as it is, 0 included.                              *)
(***************************************************************************)
C9_PresentValuesVerbatim ==
    \A r \in aiInflight :
        /\ "temperature" \in DOMAIN aiOptions => r.temperature = aiOptions["temperature"]
        /\ "maxTokens" \in DOMAIN aiOptions => HasCap(r, aiOptions["maxTokens"])

(***************************************************************************)
(* C10 as stated: the model of an AIProvider is the one its provider maps  *)
(* the given alias to when the provider defines that alias, and the        *)
(* provider's "default" model for every other or absent alias.             *)
(***************************************************************************)
C10_AliasOrDefault ==
    ai # NoAI =>
        ai.model = IF aiAlias \in DOMAIN MODELS[ai.provider]
                   THEN MODELS[ai.provider][aiAlias]
                   ELSE MODELS[ai.provider]["default"]

(***************************************************************************)
(* C11: a provider without usable credential does not end the generate     *)
(* call: its attempt is recorded as a failed entry naming the missing key  *)
(* and the next provider of the chain is attempted, so a chain whose first *)
(* provider is unconfigured and whose second succeeds returns the second   *)
(* provider's result.                                                      *)
(***************************************************************************)
KeyNotSet(provider) ==
    CASE provider = GEMINI -> "GEMINI_API_KEY not set"
      [] provider = GROQ -> "GROQ_API_KEY not set"
      [] provider = HUGGINGFACE -> "HUGGINGFACE_API_KEY not set"
      [] provider = TOGETHER -> "TOGETHER_API_KEY not set"
      [] provider = OLLAMA -> "no key needed"

C11_UnconfiguredFallsThrough ==
    \A c \in Calls :
        /\ \A i \in DOMAIN outcomes[c] :
                outcomes[c][i] = "unconfigured" =>
                    /\ Len(errors[c]) >= i
                    /\ errors[c][i] = <<ctorChain[i], ": ", KeyNotSet(ctorChain[i])>>
                    /\ idx[c] > i
                    /\ (pc[c] \in {"returned", "thrown"} /\ i < Len(ctorChain)) =>
                            Len(attempts[c]) > i
        /\ pc[c] = "thrown" => Len(attempts[c]) = Len(ctorChain)
        /\ (pc[c] = "returned" /\ outcomes[c] = <<"unconfigured", "ok">>) =>
                /\ result[c].provider = ctorChain[2]
                /\ result[c].text = <<"Answer to ", prompt[c]>>

\* The first provider had no credential and the second one answered.
C11_Witness ==
    \E c \in Calls :
        /\ pc[c] = "returned"
        /\ outcomes[c] = <<"unconfigured", "ok">>
        /\ ctorChain[1] # ctorChain[2]

(***************************************************************************)
(* C12: for every adapter, an answer with a success status from which no   *)
(* text can be extracted is a failed attempt: the gateway records an entry *)
(* for it, goes on to the next provider and never returns a result built   *)
(* from that answer.                                                       *)
(***************************************************************************)
C12_NoTextIsFailure ==
    \A c \in Calls :
        \A i \in DOMAIN outcomes[c] :
            outcomes[c][i] \in PayloadOutcomes =>
                /\ Len(errors[c]) >= i
                /\ Head(errors[c][i]) = ctorChain[i]
                /\ idx[c] > i
                /\ pc[c] # "returned"

(***************************************************************************)
(* C13: generate returns a value only when one attempt of the call got a   *)
(* completion, and the value carries that text; when no attempt did, the   *)
(* empty chain included, the call throws and returns nothing.              *)
(***************************************************************************)
C13_ValueOnlyOnSuccess ==
    \A c \in Calls :
        /\ pc[c] = "returned" =>
                /\ \E i \in DOMAIN outcomes[c] : outcomes[c][i] = "ok"
                /\ "text" \in DOMAIN result[c]
                /\ result[c].text # <<>>
        /\ pc[c] = "thrown" =>
                /\ \A i \in DOMAIN outcomes[c] : outcomes[c][i] # "ok"
                /\ result[c] = NoResult

UsableNow(provider) ==
    CASE provider \in {GEMINI, GROQ} -> keySeen[provider]
      [] provider \in {HUGGINGFACE, TOGETHER} -> CredentialPresent(provider)
      [] provider = OLLAMA -> TRUE

C15_ClientsCreatedOnce ==
    [][/\ created'[GEMINI] <= 1
       /\ created'[GROQ] <= 1
       /\ geminiClient' <=> created'[GEMINI] = 1
       /\ groqClient' <=> created'[GROQ] = 1
       /\ geminiClient => geminiClient' /\ created'[GEMINI] = created[GEMINI]
       /\ groqClient => groqClient' /\ created'[GROQ] = created[GROQ]]_vars

\* The only construction so far was of a gateway with several providers:
\* each of their constructors found the Gemini key set, and one created.
C15_Witness ==
    /\ constructed
    /\ Len(ctorChain) > 1
    /\ ai = NoAI
    /\ geminiClient
    /\ created[GEMINI] = 1

(***************************************************************************)
(* C16: every route handler that calls the gateway (career recommend,      *)
(* interview questions, interview evaluate, resume analyze, chatbot        *)
(* message) answers with its own static fallback content, as a successful  *)
(* response, when generate fails because all providers failed.             *)
(***************************************************************************)
C16_FallbackIsSuccess ==
    (route # NoRoute /\ response # NoResponse /\ pc[FirstCall] = "thrown") =>
        /\ response.status = 200
        /\ response.success
        /\ response.content = "fallback"

\* The sessions there are: the store's, and req.session of the requests that
\* are being served.
Sessions ==
    {store} \cup {requests[r].session : r \in {q \in Requests : ~Free(q)}}

(***************************************************************************)
(* C17: a session established by a successful login or register passes    *)
(* the requireAuth guard of every router and page that has one: profile,   *)
(* chatbot, resume, progress and the server's page guard.                  *)
(***************************************************************************)
C17_SessionPassesEveryGuard ==
    Truthy(store.userId) =>
        /\ RequireAuth(store)
        /\ RequireAuthChatbot(store)
        /\ RequireAuthResume(store)
        /\ RequireAuthProgress(store)
        /\ RequireAuthPage(store)

(***************************************************************************)
(* C18: however register requests overlap, the users collection holds at   *)
(* most one document per email: the second registration of an email is     *)
(* rejected with 'User already exists'.                                    *)
(***************************************************************************)
C18_OneUserPerEmail ==
    \A i, j \in DOMAIN users : users[i].email = users[j].email => i = j

(***************************************************************************)
(* C19: after any sequence of register, login, logout and profile update   *)
(* requests, a session has userId set exactly when it has user set, and    *)
(* then user.id equals userId.                                             *)
(***************************************************************************)
C19_UserIdIffUser ==
    \A session \in Sessions :
        /\ Truthy(session.userId) <=> session.user # NoUser
        /\ session.user # NoUser => session.user.id = session.userId

\* A profile update has renamed the user of an established session.
C19_Witness ==
    /\ requests[FirstRequest].kind = "update"
    /\ requests[FirstRequest].stage = "done"
    /\ requests[FirstRequest].status = 200
    /\ Truthy(store.userId)
    /\ store.user.name = "Anna"

(***************************************************************************)
(* C20: a register or login request that is answered with a 4xx status has *)
(* created or changed no user document and has left the session as it was. *)
(***************************************************************************)
C20_RejectedWritesNothing ==
    \A r \in Requests :
        (/\ requests[r].stage = "done"
         /\ requests[r].kind \in {"register", "login"}
         /\ requests[r].status \in 400..499) => ~requests[r].wrote

\* A login with a wrong password was rejected while a session was established.
C20_Witness ==
    /\ requests[FirstRequest].stage = "done"
    /\ requests[FirstRequest].kind = "login"
    /\ requests[FirstRequest].status = 401
    /\ Truthy(store.userId)
    /\ \E i \in DOMAIN users : users[i].id # store.userId

(***************************************************************************)
(* C21: after a successful logout, and until a later successful login or   *)
(* register on that session, GET /check reports authenticated false and    *)
(* every requireAuth guard rejects the session.                            *)
(***************************************************************************)
C21_LoggedOutStaysOut ==
    loggedOut =>
        /\ ~CheckBody(store).authenticated
        /\ ~RequireAuth(store)
        /\ ~RequireAuthChatbot(store)
        /\ ~RequireAuthResume(store)
        /\ ~RequireAuthProgress(store)
        /\ ~RequireAuthPage(store)

\* The passwords a user document may hold.
Passwords == {Secret, Hunter}

WithPassword(doc, password) == [doc EXCEPT !.password = password]

\* The fields of the user and profile objects of a response body.
Exposed(body) == UNION {DOMAIN body[f] : f \in DOMAIN body \cap {"user", "profile"}}

\* No answered request carries a password field.
NoPasswordField ==
    \A r \in Requests :
        (requests[r].stage = "done" /\ "body" \in DOMAIN requests[r])
            => "password" \notin Exposed(requests[r].body)

\* What the handler of request r is about to send, had the document held
\* the given password: the same as with the password it holds.  For a login
\* only the passwords that the guard lets through are compared.
SameWith(r, doc, password, guard(_, _)) ==
    LET q == requests[r]
        other == WithPassword(doc, password)
    IN  /\ (q.kind = "login" /\ q.stage = "query" /\ doc.email = q.body.email
             /\ guard(doc, password))
                => LoginAnswer(other, q.body.password, FALSE)
                       = LoginAnswer(doc, q.body.password, FALSE)
        /\ (q.kind = "get" /\ q.stage = "get" /\ doc.id = q.session.userId)
                => ProfileGetBody(other) = ProfileGetBody(doc)
        /\ (q.kind = "chat" /\ q.stage = "profile" /\ doc.id = q.session.user.id)
                => ChatPrompt(other, q.body.message) = ChatPrompt(doc, q.body.message)

AnyPassword(doc, password) == TRUE

SameVerdict(r) ==
    LET Guard(doc, password) ==
            PasswordVerified(WithPassword(doc, password), requests[r].body.password)
                = PasswordVerified(doc, requests[r].body.password)
    IN  \A i \in DOMAIN users, password \in Passwords :
            SameWith(r, users[i], password, Guard)

C23_MetricsInRange ==
    (route = INTERVIEW_EVALUATE /\ response.status = 200 /\ response.success)
        => \A m \in Metrics :
               /\ response.evaluation[m].type = "number"
               /\ response.evaluation[m].value \in 0..10

\* The same for the responses that carry the fallback evaluation.
FallbackInRange ==
    (route = INTERVIEW_EVALUATE /\ response.status = 200
     /\ response.content = "fallback") => C23_MetricsInRange

\* The reply ai.generate gives to the history up to and including entry i.
ReplyTo(i) == AdapterResult(ai, FullPrompt(SubSeq(history, 1, i))).text

\* C24: once every send call on a chat session has completed and no clear
\* was called, the history alternates user and assistant entries and every
\* user message is immediately followed by the reply to it.
C24_HistoryAlternates ==
    (\A c \in Calls : sends[c].stage # "await") =>
        /\ Len(history) % 2 = 0
        /\ \A i \in DOMAIN history :
                IF i % 2 = 1
                THEN history[i].role = "user"
                ELSE /\ history[i].role = "assistant"
                     /\ history[i].content = ReplyTo(i - 1)

\* The children of chatMessages that sendMessage call c created.
Made(c, type) == {i \in DOMAIN messages : messages[i].by = c /\ messages[i].type = type}

\* C25: once every sendMessage call has completed, the message list holds
\* no loading placeholder, and each call that sent a message has left
\* exactly its user message, followed later by exactly one bot message.
C25_NoPlaceholderNothingLost ==
    (\A c \in Calls : fetches[c] # "await") =>
        /\ \A i \in DOMAIN messages : messages[i].html # Loading
        /\ \A c \in Calls :
                fetches[c] = "done" =>
                    /\ Cardinality(Made(c, "user")) = 1
                    /\ Cardinality(Made(c, "bot")) = 1
                    /\ \A i \in Made(c, "user"), j \in Made(c, "bot") : i < j
====
